---------------------------- MODULE Spec2Model ----------------------------
(***************************************************************************)
(* A model of django-react-bridge: ApiClient (token store, 401 refresh     *)
(* interceptor, retry helper, GET cache) and AuthService (login, logout,   *)
(* getCurrentUser, isAuthenticated).                                       *)
(*                                                                         *)
(* Scheduling: JavaScript runs one task at a time and drains the microtask *)
(* queue before the next event.  A step of the model is therefore one      *)
(* event (a verb call made by the application, a network response, a timer *)
(* firing) together with every continuation it runs up to the next await   *)
(* on the network or on a timer.                                           *)
(***************************************************************************)
EXTENDS Integers, Sequences, FiniteSets, TLC

(***************************************************************************)
(* Bounds of the model.                                                    *)
(***************************************************************************)
MaxTicks == 3

(***************************************************************************)
(* JavaScript values.  Undefined stands for undefined in a string field,   *)
(* Unset for an absent numeric option, "unset" for an absent boolean one.  *)
(***************************************************************************)
Undefined == "<undefined>"

Unset == 0 - 1

Tri == {"unset", "true", "false"}

\* if (s): a string is truthy unless undefined or empty
Truthy(s) == s # Undefined /\ s # ""

\* a || b || c on numbers: the first operand that is neither undefined nor 0
OrElse(a, b, c) ==
  IF a # Unset /\ a # 0 THEN a
  ELSE IF b # Unset /\ b # 0 THEN b
  ELSE c

\* x !== undefined ? x : y on booleans (y may itself be unset: falsy)
Ternary(x, y) == IF x # "unset" THEN x = "true" ELSE y = "true"

(***************************************************************************)
(* ApiClient constructor: this.config = { ...defaultConfig, ...config }    *)
(***************************************************************************)
DefaultCacheDuration == 5 * 60 * 1000

DefaultRetryCount == 3

DefaultRetryDelay == 1000

defaultConfig ==
  [enableCache |-> "true", cacheDuration |-> DefaultCacheDuration,
   enableRetry |-> "true", retryCount |-> DefaultRetryCount,
   retryDelay |-> DefaultRetryDelay, autoRefreshToken |-> "true"]

\* a key the caller's object does not carry keeps defaultConfig's value
Construct(user) ==
  [enableCache   |-> IF user.enableCache = "unset" THEN defaultConfig.enableCache
                     ELSE user.enableCache,
   cacheDuration |-> IF user.cacheDuration = Unset THEN defaultConfig.cacheDuration
                     ELSE user.cacheDuration,
   enableRetry   |-> IF user.enableRetry = "unset" THEN defaultConfig.enableRetry
                     ELSE user.enableRetry,
   retryCount    |-> IF user.retryCount = Unset THEN defaultConfig.retryCount
                     ELSE user.retryCount,
   retryDelay    |-> IF user.retryDelay = Unset THEN defaultConfig.retryDelay
                     ELSE user.retryDelay,
   autoRefreshToken |-> IF user.autoRefreshToken = "unset"
                        THEN defaultConfig.autoRefreshToken
                        ELSE user.autoRefreshToken,
   onAuthError   |-> user.onAuthError,
   logout        |-> user.logout]

(***************************************************************************)
(* Token store: one JSON blob under tokenStorageKey.                       *)
(***************************************************************************)
NoItem == [present |-> FALSE, json |-> TRUE, blob |-> << >>]

\* JSON.stringify of {access, refresh}: a member that is undefined is left out
Stringify(tokens) ==
  (IF tokens.access = Undefined THEN << >> ELSE << <<"access", tokens.access>> >>)
  \o (IF tokens.refresh = Undefined THEN << >> ELSE << <<"refresh", tokens.refresh>> >>)

\* member k of JSON.parse(blob); undefined when the blob has no such member
Member(blob, k) ==
  IF \E i \in 1..Len(blob) : blob[i][1] = k
  THEN blob[CHOOSE i \in 1..Len(blob) : blob[i][1] = k][2]
  ELSE Undefined

NullTokens ==
  [throws |-> FALSE, present |-> FALSE, access |-> Undefined, refresh |-> Undefined]

\* an AuthTokens object, or undefined (obj = FALSE)
Pair(a, r) == [obj |-> TRUE, access |-> a, refresh |-> r]

NoPair == [obj |-> FALSE, access |-> Undefined, refresh |-> Undefined]

\* setItem(key, JSON.stringify(tokens)); JSON.stringify(undefined) is undefined,
\* which window.localStorage keeps as the text "undefined" (json = FALSE)
storeTokens(tokens) ==
  IF tokens.obj
  THEN [present |-> TRUE, json |-> TRUE, blob |-> Stringify(tokens)]
  ELSE [present |-> TRUE, json |-> FALSE, blob |-> << >>]

\* tokensString ? JSON.parse(tokensString) : null; JSON.parse throws on text
\* that is not JSON
getTokens(store) ==
  IF ~store.present THEN NullTokens
  ELSE IF ~store.json
  THEN [throws |-> TRUE, present |-> FALSE, access |-> Undefined, refresh |-> Undefined]
  ELSE [throws |-> FALSE, present |-> TRUE, access |-> Member(store.blob, "access"),
        refresh |-> Member(store.blob, "refresh")]

clearTokens == NoItem

(***************************************************************************)
(* jwtDecode: the payload of a three-part token, or a throw.               *)
(***************************************************************************)
NoExp == 0 - 1

JwtTokens == {"jwt.e30", "jwt.exp1", "jwt.exp2", "jwt.exp3"}

jwtDecode(t) ==
  CASE t = "jwt.exp1" -> [throws |-> FALSE, exp |-> 1]
    [] t = "jwt.exp2" -> [throws |-> FALSE, exp |-> 2]
    [] t = "jwt.exp3" -> [throws |-> FALSE, exp |-> 3]
    [] t = "jwt.e30"  -> [throws |-> FALSE, exp |-> NoExp]
    [] OTHER          -> [throws |-> TRUE, exp |-> NoExp]

MsPerSecond == 1000

\* a validity check that rejects a token in the second it expires
ExpNotPastStrict(decoded, nowMs) ==
  decoded.exp # NoExp /\ decoded.exp * MsPerSecond > nowMs

\* decoded.exp >= Date.now() / 1000; undefined >= n is false
ExpNotPast(decoded, nowMs) ==
  decoded.exp # NoExp /\ decoded.exp * MsPerSecond >= nowMs

\* "true", "false", or "throws" (getTokens is called outside the try)
isAccessTokenValid(store, nowMs) ==
  LET tokens == getTokens(store) IN
  IF tokens.throws THEN "throws"
  ELSE IF ~(tokens.present /\ Truthy(tokens.access)) THEN "false"
  ELSE IF jwtDecode(tokens.access).throws THEN "false"
  ELSE IF ExpNotPast(jwtDecode(tokens.access), nowMs) THEN "true" ELSE "false"

(***************************************************************************)
(* Requests and the GET cache.                                             *)
(***************************************************************************)
\* JSON.stringify(params): the members in insertion order
RECURSIVE JsonMembers(_)
JsonMembers(params) ==
  IF params = << >> THEN << >>
  ELSE << params[1][1], ":", params[1][2] >>
       \o (IF Len(params) > 1 THEN << "," >> ELSE << >>)
       \o JsonMembers(Tail(params))

JsonStringify(params) == << "{" >> \o JsonMembers(params) \o << "}" >>

\* `${url}${JSON.stringify(axiosConfig.params || {})}`
CacheKey(url, params) == << url >> \o JsonStringify(params)

Urls == {"/items/", "/auth/user/"}

ParamsSet == { << >>, << <<"page", "1">> >> }

\* params objects that hold the same members in either insertion order
OrderParams ==
  { << <<"page", "1">>, <<"size", "2">> >>, << <<"size", "2">>, <<"page", "1">> >>,
    << <<"page", "1">> >>, << >> }

Keys == {CacheKey(u, p) : u \in Urls, p \in ParamsSet \cup OrderParams}

NoEntry == [has |-> FALSE, data |-> "", expiry |-> 0]

Payloads == {"p1", "p2"}

NoHeader == "<none>"

NoOpts ==
  [cache |-> "unset", cacheDuration |-> Unset, retry |-> "unset",
   retryCount |-> Unset, retryDelay |-> Unset]

VARIABLES
  config,        \* this.config, fixed by the constructor
  storage,       \* the storage item under tokenStorageKey
  cache,         \* this.cache
  calls,         \* the verb calls: position, resolved options, retry arguments
  now,           \* Date.now()
  ticks,         \* how often the clock has advanced
  refreshCalls,  \* posts made to the refresh endpoint
  authErrors,    \* invocations of config.onAuthError
  valid,         \* what the last isAccessTokenValid() call gave
  lastFetch      \* history: per cache key, the last cache-enabled GET that
                 \* completed by a successful dispatch: when, its TTL, its payload

vars ==
  <<config, storage, cache, calls, now, ticks, refreshCalls, authErrors, valid,
    lastFetch>>

\* the verb calls the application makes, at most three of them at a time
Calls == {1, 2, 3}

IdleCall ==
  [pc |-> "idle", owner |-> "user", verb |-> "get", url |-> "", params |-> << >>,
   key |-> << >>,
   opts |-> NoOpts, useCache |-> FALSE, cacheTime |-> 0, shouldRetry |-> FALSE,
   maxRetries |-> 0, delay |-> 0, retryCount |-> 0, retryDelay |-> 0,
   retried |-> FALSE, auth |-> NoHeader, tokens |-> NullTokens, wakeAt |-> 0,
   outcome |-> "none", data |-> "", error |-> "none", ownerOutcome |-> "none",
   \* history of the call, read by the properties only
   hit |-> FALSE, attempts |-> 0, dispatches |-> 0,
   refreshes |-> 0, posts |-> 0, replays |-> 0, waits |-> << >>,
   gaps |-> << >>, failedAt |-> 0, sent |-> << >>,
   refreshGot |-> "none", refreshResult |-> "none",
   refreshSent |-> << >>, refreshStatus |-> 0, offered |-> "none"]

(***************************************************************************)
(* The resolved options of one verb call.                                  *)
(***************************************************************************)
UseCache(opts, cfg) == Ternary(opts.cache, cfg.enableCache)

CacheTime(opts, cfg) == OrElse(opts.cacheDuration, cfg.cacheDuration, 5 * 60 * 1000)

ShouldRetry(opts, cfg) == Ternary(opts.retry, cfg.enableRetry)

MaxRetries(opts, cfg) == OrElse(opts.retryCount, cfg.retryCount, 3)

Delay(opts, cfg) == OrElse(opts.retryDelay, cfg.retryDelay, 1000)

(***************************************************************************)
(* withRetry, the interceptors and the transport.                          *)
(***************************************************************************)
\* request interceptor: the header is set only when tokens?.access is truthy
InjectAuth(store, header) ==
  IF Truthy(getTokens(store).access) THEN getTokens(store).access ELSE header

\* a withRetry that does not double its wait
BackoffConstant(retryDelay) == retryDelay

\* withRetry(requestFn, retryCount - 1, retryDelay * 2): the next wait
Backoff(retryDelay) == retryDelay * 2

\* a rejection of requestFn: withRetry's catch when the call retries, else the
\* rejection of the verb call
Catch(call, err, t) ==
  IF call.shouldRetry /\ call.retryCount > 0
  THEN [call EXCEPT !.pc = "backoff", !.error = err,
                    !.wakeAt = t + call.retryDelay,
                    !.waits = Append(@, call.retryDelay), !.failedAt = t]
  ELSE [call EXCEPT !.pc = "done", !.outcome = "rejected", !.error = err]

\* requestFn(): a fresh axios config through the request interceptor to the
\* transport; a throw of the interceptor rejects the request undispatched
Send(call, store, t) ==
  IF getTokens(store).throws
  THEN Catch([call EXCEPT !.attempts = @ + 1, !.retried = FALSE], "SyntaxError", t)
  ELSE [call EXCEPT !.pc = "inflight", !.retried = FALSE,
                    !.auth = InjectAuth(store, NoHeader),
                    !.attempts = @ + 1, !.dispatches = @ + 1,
                    !.sent = Append(@, InjectAuth(store, NoHeader))]

\* the awaiting AuthService method once its verb call has settled
OwnerCall(call) ==
  IF call.pc = "done" /\ call.owner = "logout"
  THEN [call EXCEPT !.ownerOutcome = "resolved"]
  ELSE IF call.pc = "done" /\ call.owner = "login" /\ call.outcome = "rejected"
  THEN [call EXCEPT !.ownerOutcome = "rejected"]
  ELSE call

\* a logout that clears only when its endpoint call resolved
OwnerStoreOnSuccess(call, store) ==
  IF call.pc = "done" /\ call.owner = "logout" /\ call.outcome = "resolved"
  THEN clearTokens ELSE store

OwnerStore(call, store) ==
  IF call.pc = "done" /\ call.owner = "logout" THEN clearTokens ELSE store

(***************************************************************************)
(* Response interceptor and refreshToken.                                  *)
(***************************************************************************)
\* a refresh post that goes through the instance and its request interceptor
RefreshHeaderPipeline(store) == InjectAuth(store, NoHeader)

\* axios.post(url, { refresh }) on the bare axios import: no interceptor runs,
\* no header is given
RefreshHeader(store) == NoHeader

\* a refresh that keeps the refresh token the endpoint sent, when it sent one
RefreshedPairRotated(tokens, data) ==
  Pair(data.access, IF data.refresh # Undefined THEN data.refresh ELSE tokens.refresh)

\* { ...tokens, access: response.data.access }
RefreshedPair(tokens, data) == Pair(data.access, tokens.refresh)

\* a refreshToken that empties the store when it finds no refresh token
On401Clearing(call, store, cfg, t) ==
  LET c1 == [call EXCEPT !.retried = TRUE, !.refreshes = @ + 1]
      tokens == getTokens(store)
  IN  IF tokens.throws
      THEN [call |-> Catch(c1, "401", t), store |-> clearTokens,
            authError |-> cfg.onAuthError, post |-> FALSE]
      ELSE IF ~Truthy(tokens.refresh)
      THEN [call |-> Catch([c1 EXCEPT !.refreshResult = "false"], "401", t),
            store |-> clearTokens,
            authError |-> FALSE, post |-> FALSE]
      ELSE [call |-> [c1 EXCEPT !.pc = "refreshing", !.tokens = tokens,
                                !.posts = @ + 1,
                                !.refreshSent = Append(@, RefreshHeader(store))],
            store |-> store, authError |-> FALSE, post |-> TRUE]

\* error handler on a 401 with _retry unset, up to refreshToken's await of its
\* post: the call, the store, and whether onAuthError ran
On401(call, store, cfg, t) ==
  LET c1 == [call EXCEPT !.retried = TRUE, !.refreshes = @ + 1]
      tokens == getTokens(store)
  IN  IF tokens.throws
      \* refreshToken rejects: catch (refreshError), then Promise.reject(error)
      THEN [call |-> Catch(c1, "401", t), store |-> clearTokens,
            authError |-> cfg.onAuthError, post |-> FALSE]
      ELSE IF ~Truthy(tokens.refresh)
      \* if (!tokens?.refresh) return false, then Promise.reject(error)
      THEN [call |-> Catch([c1 EXCEPT !.refreshResult = "false"], "401", t),
            store |-> store,
            authError |-> FALSE, post |-> FALSE]
      ELSE [call |-> [c1 EXCEPT !.pc = "refreshing", !.tokens = tokens,
                                !.posts = @ + 1,
                                !.refreshSent = Append(@, RefreshHeader(store))],
            store |-> store, authError |-> FALSE, post |-> TRUE]

\* refreshToken after its post settled, and the interceptor after refreshToken:
\* response.data.access throws on a null body, inside the try
OnRefreshed(call, store, rr, t) ==
  IF rr.status = 200 /\ rr.body = "object"
  THEN LET stored == storeTokens(RefreshedPair(call.tokens, rr))
           \* `Bearer ${tokens?.access}`, then the request interceptor again
           header == getTokens(stored).access
       IN  [call |-> [call EXCEPT !.pc = "inflight",
                                  !.refreshGot = IF rr.access = Undefined
                                                 THEN "noaccess" ELSE "access",
                                  !.refreshResult = "true",
                                  !.offered = rr.refresh,
                                  !.refreshStatus = rr.status,
                                  !.auth = InjectAuth(stored, header),
                                  !.replays = @ + 1, !.dispatches = @ + 1,
                                  !.sent = Append(@, InjectAuth(stored, header))],
            store |-> stored]
  ELSE [call |-> Catch([call EXCEPT !.refreshGot = IF rr.status = 200 THEN "null"
                                                   ELSE "error",
                                    !.refreshResult = "false",
                                    !.refreshStatus = rr.status], "401", t),
        store |-> clearTokens]

Respond200(call, resp) ==
  [call EXCEPT !.pc = "done", !.outcome = "resolved", !.data = resp.data,
               !.error = "none"]

\* a cache write whose entry expires the moment it is written
PopulateNoTtl(call, data, t) == [has |-> TRUE, data |-> data, expiry |-> t]

\* get(): this.cache[cacheKey] = { data: result, expiry: Date.now() + cacheTime }
Populate(call, data, t) == [has |-> TRUE, data |-> data, expiry |-> t + call.cacheTime]

\* a cache check that still serves an entry at its expiry time
CacheHitInclusive(useCache, entry, t) == useCache /\ entry.has /\ entry.expiry >= t

\* get(): useCache && this.cache[cacheKey] && this.cache[cacheKey].expiry > Date.now()
CacheHit(useCache, entry, t) == useCache /\ entry.has /\ entry.expiry > t

(***************************************************************************)
(* What the network may answer.                                            *)
(***************************************************************************)
Responses ==
  [status : {200}, data : Payloads] \cup [status : {401, 500}, data : {""}]

ServerAccess == "jwt.exp3"

\* a refresh token the endpoint may send along (token rotation)
Rotated == "r1"

RefreshResponses ==
  [status : {200}, body : {"object"}, access : {ServerAccess, Undefined},
   refresh : {Undefined, Rotated}]
  \cup [status : {200}, body : {"null"}, access : {Undefined}, refresh : {Undefined}]
  \cup [status : {401, 500}, body : {"object"}, access : {Undefined},
         refresh : {Undefined}]

(***************************************************************************)
(* Actions.                                                                *)
(***************************************************************************)
\* a verb that has no cache code
CacheableAny(verb) == TRUE

\* only get() reads and writes this.cache
Cacheable(verb) == verb = "get"

\* get(url, options) and post/put/patch/delete(url, data, options), up to the
\* first await that leaves the task
Issue(call, verb, url, params, opts, cfg, cch, store, t) ==
  LET key == CacheKey(url, params)
      useCache == Cacheable(verb) /\ UseCache(opts, cfg)
      c1 == [call EXCEPT !.verb = verb, !.url = url, !.params = params,
                         !.key = key, !.opts = opts,
                         !.useCache = useCache,
                         !.cacheTime = IF Cacheable(verb) THEN CacheTime(opts, cfg)
                                       ELSE 0,
                         !.shouldRetry = ShouldRetry(opts, cfg),
                         !.maxRetries = MaxRetries(opts, cfg),
                         !.delay = Delay(opts, cfg),
                         !.retryCount = MaxRetries(opts, cfg),
                         !.retryDelay = Delay(opts, cfg)]
  IN  IF CacheHit(useCache, cch[key], t)
      THEN [c1 EXCEPT !.pc = "done", !.outcome = "resolved",
                      !.data = cch[key].data, !.hit = TRUE]
      ELSE Send(c1, store, t)

Invoke(c, verb, url, params, opts) ==
  /\ calls[c].pc = "idle"
  /\ calls' = [calls EXCEPT ![c] =
       Issue(calls[c], verb, url, params, opts, config, cache, storage, now)]
  /\ UNCHANGED <<config, storage, cache, now, ticks, refreshCalls, authErrors, valid, lastFetch>>

(***************************************************************************)
(* AuthService.login and getCurrentUser.                                   *)
(***************************************************************************)
LoginUrl == "/auth/token/"

UserUrl == "/auth/user/"

\* bodies the login endpoint may answer with
LoginBodies == {"tokens", "tokens+user"}

\* { access: response.access, refresh: response.refresh }
LoginTokens(data) ==
  IF data \in LoginBodies THEN Pair("jwt.exp2", "r1") ELSE Pair(Undefined, Undefined)

\* response.user
HasUser(data) == data = "tokens+user"

\* login(), its post resolved: the store after storeTokens
LoginStore(call, resp, store) ==
  IF call.owner = "login" /\ call.verb = "post" /\ resp.status = 200
  THEN storeTokens(LoginTokens(resp.data))
  ELSE store

\* getCurrentUser(): this.apiClient.get('/auth/user/')
getCurrentUser(call, cfg, cch, store, t) ==
  Issue([call EXCEPT !.pc = "idle", !.outcome = "none", !.data = ""],
        "get", UserUrl, << >>, NoOpts, cfg, cch, store, t)

\* login() once a verb call of its has resolved:
\* return response.user || this.getCurrentUser()
LoginCall(call, resp, cfg, cch, store, t) ==
  IF call.owner = "login" /\ call.pc = "done" /\ call.outcome = "resolved"
  THEN IF call.verb = "post" /\ ~HasUser(resp.data)
       THEN LET g == OwnerCall(getCurrentUser(call, cfg, cch, store, t))
            IN  IF g.pc = "done" /\ g.outcome = "resolved"
                THEN [g EXCEPT !.ownerOutcome = "resolved"] ELSE g
       ELSE [call EXCEPT !.ownerOutcome = "resolved"]
  ELSE call

\* the transport settles the dispatch of call c
Respond(c, resp) ==
  LET call == calls[c]
      r401 == On401(call, storage, config, now)
      settled == OwnerCall(
        IF resp.status = 200 THEN Respond200(call, resp)
        ELSE IF resp.status = 401 /\ ~call.retried THEN r401.call
        ELSE Catch(call, IF resp.status = 401 THEN "401" ELSE "500", now))
      first401 == resp.status = 401 /\ ~call.retried
      stored == LoginStore(call, resp, IF first401 THEN r401.store ELSE storage)
      new == LoginCall(settled, resp, config, cache, stored, now)
  IN  /\ call.pc = "inflight"
      /\ calls' = [calls EXCEPT ![c] = new]
      /\ cache' = IF resp.status = 200 /\ call.verb = "get" /\ call.useCache
                  THEN [cache EXCEPT ![call.key] = Populate(call, resp.data, now)]
                  ELSE cache
      /\ lastFetch' = IF resp.status = 200 /\ call.verb = "get" /\ call.useCache
                      THEN [lastFetch EXCEPT ![call.key] =
                              [has |-> TRUE, at |-> now, ttl |-> call.cacheTime,
                               data |-> resp.data]]
                      ELSE lastFetch
      /\ storage' = OwnerStore(new, stored)
      /\ refreshCalls' = IF first401 /\ r401.post THEN refreshCalls + 1 ELSE refreshCalls
      /\ authErrors' = IF first401 /\ r401.authError THEN authErrors + 1 ELSE authErrors
      /\ UNCHANGED <<config, now, ticks, valid>>

\* the refresh endpoint settles the post made for call c
RefreshRespond(c, rr) ==
  LET call == calls[c]
      r == OnRefreshed(call, storage, rr, now)
      new == OwnerCall(r.call)
  IN  /\ call.pc = "refreshing"
      /\ calls' = [calls EXCEPT ![c] = new]
      /\ storage' = OwnerStore(new, r.store)
      /\ UNCHANGED <<config, cache, now, ticks, refreshCalls, authErrors, valid, lastFetch>>

\* withRetry: the timer fires, withRetry(requestFn, retryCount - 1, retryDelay * 2)
Wake(c) ==
  LET call == calls[c]
      new == OwnerCall(Send([call EXCEPT !.retryCount = @ - 1,
                                         !.retryDelay = Backoff(call.retryDelay),
                                         !.gaps = Append(@, now - call.failedAt)],
                            storage, now))
  IN  /\ call.pc = "backoff"
      /\ now >= call.wakeAt
      /\ calls' = [calls EXCEPT ![c] = new]
      /\ storage' = OwnerStore(new, storage)
      /\ UNCHANGED <<config, cache, now, ticks, refreshCalls, authErrors, valid, lastFetch>>

\* AuthService.logout()
Logout(c) ==
  LET call == calls[c]
      tokens == getTokens(storage)
      c1 == [call EXCEPT !.owner = "logout", !.verb = "post",
                         !.shouldRetry = ShouldRetry(NoOpts, config),
                         !.maxRetries = MaxRetries(NoOpts, config),
                         !.delay = Delay(NoOpts, config),
                         !.retryCount = MaxRetries(NoOpts, config),
                         !.retryDelay = Delay(NoOpts, config)]
      new == IF tokens.throws
             THEN [c1 EXCEPT !.pc = "done", !.ownerOutcome = "rejected"]
             ELSE IF Truthy(tokens.refresh) /\ config.logout
             THEN OwnerCall(Send(c1, storage, now))
             ELSE [c1 EXCEPT !.pc = "done", !.ownerOutcome = "resolved"]
  IN  /\ call.pc = "idle"
      /\ calls' = [calls EXCEPT ![c] = new]
      /\ storage' = IF tokens.throws THEN storage
                    ELSE IF new.pc = "done" THEN clearTokens ELSE storage
      /\ UNCHANGED <<config, cache, now, ticks, refreshCalls, authErrors, valid, lastFetch>>

\* AuthService.login(credentials)
Login(c) ==
  /\ calls[c].pc = "idle"
  /\ calls' = [calls EXCEPT ![c] =
       OwnerCall(Issue([calls[c] EXCEPT !.owner = "login"], "post", LoginUrl, << >>,
                       NoOpts, config, cache, storage, now))]
  /\ UNCHANGED <<config, storage, cache, now, ticks, refreshCalls, authErrors, valid, lastFetch>>

\* time passes
Tick(dt) ==
  /\ ticks < MaxTicks
  /\ now' = now + dt
  /\ ticks' = ticks + 1
  /\ UNCHANGED <<config, storage, cache, calls, refreshCalls, authErrors, valid, lastFetch>>

\* the application stores a token pair (storeTokens is public)
StoreTokens(a, r) ==
  /\ storage' = storeTokens(Pair(a, r))
  /\ UNCHANGED <<config, cache, calls, now, ticks, refreshCalls, authErrors, valid, lastFetch>>

\* the application clears the tokens (clearTokens is public)
ClearTokens ==
  /\ storage' = clearTokens
  /\ UNCHANGED <<config, cache, calls, now, ticks, refreshCalls, authErrors, valid, lastFetch>>

\* isAccessTokenValid(), as AuthService.isAuthenticated() calls it
CheckValid ==
  /\ valid' = [result |-> isAccessTokenValid(storage, now), store |-> storage, at |-> now]
  /\ UNCHANGED <<config, storage, cache, calls, now, ticks, refreshCalls, authErrors, lastFetch>>

(***************************************************************************)
(* Specifications.  All share the actions; they differ in the client       *)
(* configurations, the per-call options and the clock steps they draw.     *)
(***************************************************************************)
UserConfig(ec, cd, er, rc, rd, ar, cb, lo) ==
  [enableCache |-> ec, cacheDuration |-> cd, enableRetry |-> er, retryCount |-> rc,
   retryDelay |-> rd, autoRefreshToken |-> ar, onAuthError |-> cb, logout |-> lo]

Opts(c, cd, r, rc, rd) ==
  [cache |-> c, cacheDuration |-> cd, retry |-> r, retryCount |-> rc, retryDelay |-> rd]

InitialPair == Pair("jwt.exp1", "r0")

\* a stored pair that lacks its refresh token
AccessOnly == Pair("jwt.exp1", Undefined)

InitWith(configs, stores) ==
  /\ config \in configs
  /\ storage \in stores
  /\ cache = [k \in Keys |-> NoEntry]
  /\ calls = [c \in Calls |-> IdleCall]
  /\ now = 0
  /\ ticks = 0
  /\ refreshCalls = 0
  /\ authErrors = 0
  /\ valid = [result |-> "none", store |-> NoItem, at |-> 0]
  /\ lastFetch = [k \in Keys |-> [has |-> FALSE, at |-> 0, ttl |-> 0, data |-> ""]]

Invoked(c) == calls[c].pc # "idle"

\* Two concurrent calls, retries off: 401 handling, refresh and logout
AuthConfigs ==
  {Construct(UserConfig("false", Unset, "false", Unset, Unset, ar, TRUE, lo)) :
     ar \in {"unset", "false"}, lo \in BOOLEAN}

AuthResponses == [status : {200}, data : {"p1"}] \cup [status : {401, 500}, data : {""}]

Init == InitWith(AuthConfigs, {NoItem, storeTokens(InitialPair), storeTokens(AccessOnly)})

Next ==
  \/ \E c \in {1, 2}, verb \in {"get", "post"} : Invoke(c, verb, "/items/", << >>, NoOpts)
  \/ \E c \in {1, 2}, resp \in AuthResponses : Respond(c, resp)
  \/ \E c \in {1, 2}, rr \in RefreshResponses : RefreshRespond(c, rr)
  \/ \E c \in {1, 2} : Logout(c)

Spec == Init /\ [][Next]_vars

\* One call with retries and a clock: withRetry around the 401 handling
RetryConfigs ==
  {Construct(UserConfig("false", Unset, "true", Unset, Unset, "unset", TRUE, TRUE)),
   Construct(UserConfig("false", Unset, "true", 0, 1, "unset", TRUE, TRUE)),
   Construct(UserConfig("false", Unset, "true", 1, 1, "unset", TRUE, FALSE))}

RetryOpts ==
  {NoOpts,
   Opts("unset", Unset, "unset", 0, Unset),
   Opts("unset", Unset, "unset", 2, 1),
   Opts("unset", Unset, "false", 2, 1)}

RetrySteps == {1, 2, 4 * DefaultRetryDelay}

InitRetry == InitWith(RetryConfigs, {NoItem, storeTokens(InitialPair)})

NextRetry ==
  \/ \E o \in RetryOpts : Invoke(1, "post", "/items/", << >>, o)
  \/ \E resp \in AuthResponses : Respond(1, resp)
  \/ \E rr \in RefreshResponses : RefreshRespond(1, rr)
  \/ Wake(1)
  \/ Logout(1)
  \/ \E dt \in RetrySteps : Tick(dt)

SpecRetry == InitRetry /\ [][NextRetry]_vars

\* Two GETs, the first issued first, retries off, and a clock: the cache
CacheConfigs == {Construct(UserConfig("unset", 2, "false", Unset, Unset, "unset", TRUE, FALSE))}

CacheOpts ==
  {NoOpts, Opts("unset", 3, "unset", Unset, Unset),
   Opts("false", Unset, "unset", Unset, Unset)}

CacheResponses == [status : {200}, data : Payloads] \cup [status : {500}, data : {""}]

CacheSteps == {1}

InitCache == InitWith(CacheConfigs, {NoItem})

NextCache ==
  \/ \E c \in Calls, params \in ParamsSet, o \in CacheOpts :
       /\ \A d \in Calls : d < c => Invoked(d)
       /\ Invoke(c, "get", "/items/", params, o)
  \/ \E c \in Calls, resp \in CacheResponses : Respond(c, resp)
  \/ \E dt \in CacheSteps : Tick(dt)

SpecCache == InitCache /\ [][NextCache]_vars

\* Two GETs over paths and params objects, the first issued first: cache keys
InitKey == InitWith(CacheConfigs, {NoItem})

NextKey ==
  \/ \E c \in {1, 2}, url \in Urls, params \in OrderParams :
       /\ \A d \in Calls : d < c => Invoked(d)
       /\ Invoke(c, "get", url, params, NoOpts)
  \/ \E c \in {1, 2}, resp \in CacheResponses : Respond(c, resp)
  \/ \E dt \in CacheSteps : Tick(dt)

SpecKey == InitKey /\ [][NextKey]_vars

\* GETs and writes to one path, issued in slot order: writes and the cache
WriteVerbs == {"post", "put", "patch", "delete"}

WriteOpts == {NoOpts, Opts("true", 3, "unset", Unset, Unset)}

NextWrite ==
  \/ \E c \in Calls, verb \in WriteVerbs \cup {"get"}, o \in WriteOpts :
       /\ \A d \in Calls : d < c => Invoked(d)
       /\ Invoke(c, verb, "/items/", << >>, o)
  \/ \E c \in Calls, resp \in CacheResponses : Respond(c, resp)
  \/ \E dt \in CacheSteps : Tick(dt)

SpecWrite == InitCache /\ [][NextWrite]_vars

\* login, logout and GETs of the current user, issued in slot order
LoginConfigs ==
  {Construct(UserConfig("unset", 2, "false", Unset, Unset, "unset", TRUE, lo)) :
     lo \in BOOLEAN}

LoginResponses ==
  [status : {200}, data : LoginBodies] \cup [status : {500}, data : {""}]

InitLogin == InitWith(LoginConfigs, {NoItem})

NextLogin ==
  \/ \E c \in Calls : (\A d \in Calls : d < c => Invoked(d)) /\ Login(c)
  \/ \E c \in Calls : (\A d \in Calls : d < c => Invoked(d)) /\ Logout(c)
  \/ \E c \in Calls :
       /\ \A d \in Calls : d < c => Invoked(d)
       /\ Invoke(c, "get", UserUrl, << >>, NoOpts)
  \/ \E c \in Calls, resp \in LoginResponses : Respond(c, resp)
  \/ \E dt \in CacheSteps : Tick(dt)

SpecLogin == InitLogin /\ [][NextLogin]_vars

\* The token store and isAccessTokenValid alone
AccessStrings == JwtTokens \cup {"", "not-a-jwt"}

TokenSteps == {1, MsPerSecond}

InitToken == InitWith(AuthConfigs, {NoItem})

NextToken ==
  \/ \E a \in AccessStrings : StoreTokens(a, "r0")
  \/ ClearTokens
  \/ CheckValid
  \/ \E dt \in TokenSteps : Tick(dt)

SpecToken == InitToken /\ [][NextToken]_vars

(***************************************************************************)
(* Properties.                                                             *)
(***************************************************************************)

\* C1: single-flight refresh.  Whenever two verb calls have each received a
\* 401 and neither refresh has settled yet, one post to the refresh endpoint
\* has been made in total.
C1_SingleFlightRefresh ==
  \A c, d \in Calls :
    (c # d /\ calls[c].pc = "refreshing" /\ calls[d].pc = "refreshing")
      => refreshCalls = 1

\* C2: one verb call makes at most one refresh attempt and at most one replay,
\* whatever its retry configuration; a replay answered 401 is followed by no
\* further refresh on behalf of the call.
C2_OneRefreshOneReplay ==
  \A c \in Calls :
    (Invoked(c) /\ calls[c].owner = "user")
      => (calls[c].posts <= 1 /\ calls[c].replays <= 1)

\* C3: once a refresh triggered by a 401 has failed at the refresh endpoint,
\* the configured onAuthError callback has been invoked, and the verb call,
\* when it settles, is rejected with the 401.
C3_RefreshFailureSignalled ==
  \A c \in Calls :
    calls[c].refreshGot \in {"null", "error"}
      => /\ config.onAuthError => authErrors >= 1
         /\ calls[c].pc = "done" => (calls[c].outcome = "rejected" /\ calls[c].error = "401")

\* the value the options name: the per-call one when given, else the client's
Given(option, configured) == IF option # Unset THEN option ELSE configured

GivenFlag(option, configured) ==
  IF option # "unset" THEN option = "true" ELSE configured = "true"

\* C5: a call with retry enabled and configured retry count K whose failures
\* are not 401s makes at most K + 1 attempts, and is rejected only after
\* exactly K + 1 attempts.
C5_RetryCountHonoured ==
  \A c \in Calls :
    (Invoked(c) /\ calls[c].owner = "user" /\ calls[c].shouldRetry
       /\ calls[c].refreshes = 0)
      => LET K == Given(calls[c].opts.retryCount, config.retryCount)
         IN  /\ calls[c].attempts <= K + 1
             /\ (calls[c].pc = "done" /\ calls[c].outcome = "rejected")
                  => calls[c].attempts = K + 1

\* C6: each resolved option of a call is the per-call value when one is given
\* (false and 0 included), else the client-configuration value (false and 0
\* included), which the constructor has defaulted when the caller gave none.
C6_OptionsResolved ==
  \A c \in Calls :
    (Invoked(c) /\ calls[c].owner = "user")
      => /\ calls[c].shouldRetry = GivenFlag(calls[c].opts.retry, config.enableRetry)
         /\ calls[c].maxRetries = Given(calls[c].opts.retryCount, config.retryCount)
         /\ calls[c].delay = Given(calls[c].opts.retryDelay, config.retryDelay)
         /\ calls[c].verb = "get" =>
              /\ calls[c].useCache = GivenFlag(calls[c].opts.cache, config.enableCache)
              /\ calls[c].cacheTime =
                   Given(calls[c].opts.cacheDuration, config.cacheDuration)

\* C9: whenever a refresh settles without an access token (network error,
\* non-2xx, or a 2xx body without one), the token store is empty afterwards
\* and refreshToken has reported false.
C9_FailedRefreshClears ==
  [][\A c \in Calls :
       (calls[c].pc = "refreshing" /\ calls'[c].pc # "refreshing"
          /\ calls'[c].refreshGot # "access")
         => (storage' = NoItem /\ calls'[c].refreshResult = "false")]_vars

\* C7: the step in which logout() completes leaves no token pair stored and
\* resolves logout(), whether the endpoint is unconfigured, no refresh token
\* is stored, or the endpoint call resolved or was rejected after its retries.
C7_LogoutClearsTokens ==
  [][\A c \in Calls :
       (calls[c].pc # "done" /\ calls'[c].pc = "done" /\ calls'[c].owner = "logout")
         => (storage' = NoItem /\ calls'[c].ownerOutcome = "resolved")]_vars

\* logout() has completed after its endpoint call failed every attempt
C7_Witness ==
  \E c \in Calls :
    /\ calls[c].owner = "logout" /\ calls[c].pc = "done"
    /\ calls[c].outcome = "rejected" /\ calls[c].attempts >= 2
    /\ calls[c].ownerOutcome = "resolved" /\ storage = NoItem

RECURSIVE Pow2(_)
Pow2(n) == IF n <= 0 THEN 1 ELSE 2 * Pow2(n - 1)

\* C10: with retry enabled and resolved initial delay d, the i-th wait is
\* d * 2^(i-1) and the i-th retry starts no sooner than that after the failure
\* before it; every wait is followed by an attempt, so none follows the final
\* failed attempt, and at most the resolved retry count of waits occur.
C10_BackoffDoubles ==
  \A c \in Calls :
    (Invoked(c) /\ calls[c].shouldRetry /\ calls[c].attempts >= 1)
      => /\ Len(calls[c].waits) <= calls[c].maxRetries
         /\ \A i \in 1..Len(calls[c].waits) :
              calls[c].waits[i] = calls[c].delay * Pow2(i - 1)
         /\ \A i \in 1..Len(calls[c].gaps) : calls[c].gaps[i] >= calls[c].waits[i]
         /\ Len(calls[c].gaps) = calls[c].attempts - 1
         /\ calls[c].pc = "backoff" => Len(calls[c].waits) = Len(calls[c].gaps) + 1
         /\ calls[c].pc # "backoff" => Len(calls[c].waits) = Len(calls[c].gaps)

\* a call was rejected after three retries, each after its wait
C10_Witness ==
  \E c \in Calls :
    /\ calls[c].pc = "done" /\ calls[c].outcome = "rejected"
    /\ Len(calls[c].gaps) = 3 /\ calls[c].shouldRetry

\* call b is issued in this step as a cache-enabled GET
IssuesCachedGet(b) ==
  /\ calls[b].pc = "idle" /\ calls'[b].pc # "idle"
  /\ calls'[b].owner = "user" /\ calls'[b].verb = "get" /\ calls'[b].useCache

\* C4: after a cache-enabled GET completed successfully at time t with
\* resolved TTL d, the last one to do so, a cache-enabled GET for the same
\* path and params issued before t + d returns the same payload without a
\* dispatch, and one issued at or after t + d is dispatched.
C4_CacheWithinTtl ==
  [][\A b \in Calls :
       (IssuesCachedGet(b) /\ lastFetch[calls'[b].key].has)
         => LET last == lastFetch[calls'[b].key]
            IN  IF now < last.at + last.ttl
                THEN /\ calls'[b].pc = "done" /\ calls'[b].outcome = "resolved"
                     /\ calls'[b].data = last.data
                     /\ calls'[b].dispatches = 0
                ELSE calls'[b].pc = "inflight" /\ calls'[b].dispatches = 1]_vars

\* a GET issued in the last millisecond of the TTL was served from the cache
C4_Witness ==
  \E b \in Calls :
    /\ calls[b].hit /\ lastFetch[calls[b].key].has
    /\ now = lastFetch[calls[b].key].at + lastFetch[calls[b].key].ttl - 1

\* C8: isAccessTokenValid() gives true exactly when a pair is stored whose
\* access token decodes to an exp claim with exp >= the current time in
\* seconds, and gives false, never a throw, otherwise: nothing stored, exp in
\* the past, no exp claim, or an access token that does not decode.
C8_ValidIffUnexpired ==
  valid.result # "none"
    => LET access == Member(valid.store.blob, "access")
           unexpired ==
             /\ valid.store.present
             /\ access \in JwtTokens
             /\ jwtDecode(access).exp # NoExp
             /\ jwtDecode(access).exp * 1000 >= valid.at
       IN  valid.result = (IF unexpired THEN "true" ELSE "false")

\* the check was made at the very second the stored token expires
C8_Witness ==
  /\ valid.result = "true"
  /\ valid.at = 1000
  /\ Member(valid.store.blob, "access") = "jwt.exp1"

\* C12: with autoRefreshToken = false in the client configuration, no request
\* is ever made to the refresh endpoint: a 401 goes to the caller unrefreshed.
C12_AutoRefreshFlag ==
  config.autoRefreshToken = "false"
    => (refreshCalls = 0 /\ \A c \in Calls : calls[c].refreshes = 0)

\* call c enters refreshToken() in this step
CallsRefreshToken(c) == calls'[c].refreshes = calls[c].refreshes + 1

\* C14: refreshToken() called when no pair is stored, or when the stored pair
\* has no refresh token, reports false, makes no request to the refresh
\* endpoint and leaves the token store and the cache as they were.
C14_NoRefreshTokenNoPost ==
  [][\A c \in Calls :
       (CallsRefreshToken(c) /\ ~Truthy(getTokens(storage).refresh))
         => /\ calls'[c].refreshResult = "false"
            /\ calls'[c].pc # "refreshing"
            /\ calls'[c].posts = calls[c].posts
            /\ refreshCalls' = refreshCalls
            /\ storage' = storage
            /\ cache' = cache]_vars

\* refreshToken() ran against a stored pair that has an access token only
C14_Witness ==
  \E c \in Calls :
    /\ calls[c].refreshes = 1 /\ calls[c].posts = 0
    /\ calls[c].refreshResult = "false"
    /\ storage = storeTokens(AccessOnly)

\* the refresh of call c succeeds in this step
RefreshSucceeds(c) ==
  /\ calls[c].pc = "refreshing" /\ calls'[c].pc # "refreshing"
  /\ calls'[c].refreshResult = "true" /\ calls'[c].refreshGot = "access"

\* C15: when a refresh succeeds and the store still holds what it held when
\* the refresh started, the stored pair afterwards is the access token the
\* endpoint returned with the refresh token stored at the start, also when the
\* response carried a rotated refresh token.
C15_RefreshKeepsRefreshToken ==
  [][\A c \in Calls :
       (RefreshSucceeds(c) /\ getTokens(storage) = calls[c].tokens)
         => /\ getTokens(storage').access = ServerAccess
            /\ getTokens(storage').refresh = calls[c].tokens.refresh]_vars

\* a refresh whose response offered a rotated refresh token has succeeded
C15_Witness ==
  \E c \in Calls :
    /\ calls[c].refreshGot = "access" /\ calls[c].offered = Rotated
    /\ storage = storeTokens(Pair(ServerAccess, "r0"))

\* C16: the post to the refresh endpoint carries no Authorization header, is
\* made once per refreshToken() call also when the retry policy is on, and
\* the step in which it settles, a 401 answer included, makes no further post
\* to the refresh endpoint.
C16_RefreshBypassesPipeline ==
  [][\A c \in Calls :
       /\ calls'[c].posts <= calls'[c].refreshes
       /\ \A i \in 1..Len(calls'[c].refreshSent) : calls'[c].refreshSent[i] = NoHeader
       /\ Len(calls'[c].refreshSent) = calls'[c].posts
       /\ (calls[c].pc = "refreshing" /\ calls'[c].pc # "refreshing")
            => (refreshCalls' = refreshCalls /\ calls'[c].posts = calls[c].posts)
       /\ (calls[c].pc = "refreshing" /\ calls'[c].refreshResult = "false")
            => calls'[c].pc \in {"backoff", "done"}]_vars

\* a refresh post made with an access token stored was answered 401, and the
\* verb call was then re-attempted by the retry policy without another post
C16_Witness ==
  \E c \in Calls :
    /\ calls[c].refreshStatus = 401 /\ calls[c].posts = 1
    /\ calls[c].attempts >= 2 /\ calls[c].sent[1] = "jwt.exp1"
    /\ calls[c].refreshSent = << NoHeader >>

\* the header a dispatch must carry when the store holds `store`
BearerOf(store) ==
  IF getTokens(store).present /\ Truthy(getTokens(store).access)
  THEN getTokens(store).access ELSE NoHeader

\* C13: every dispatch of a verb call (first attempt, retry attempt, replay
\* after a refresh) carries the access token that is in the store at that
\* moment, and carries no bearer value when the store holds no access token.
C13_DispatchCarriesCurrentToken ==
  [][\A c \in Calls :
       Len(calls'[c].sent) > Len(calls[c].sent)
         => calls'[c].sent[Len(calls'[c].sent)] = BearerOf(storage')]_vars

\* C19: once logout() has completed, no token pair is stored (no login or
\* register follows in these behaviours), whatever refresh was in flight.
C19_ClearIsFinal ==
  (\E c \in Calls : calls[c].owner = "logout" /\ calls[c].ownerOutcome = "resolved")
    => storage = NoItem

\* call c changes in this step
Moves(c) == calls'[c] # calls[c]

\* the GET of call c, caching enabled, completes by a successful dispatch
CachedGetSucceeds(c) ==
  /\ calls[c].pc = "inflight" /\ calls'[c].pc = "done"
  /\ calls'[c].outcome = "resolved"
  /\ calls[c].verb = "get" /\ calls[c].useCache

\* C17: a step changes the cache only by completing a cache-enabled GET by a
\* successful dispatch, writing that GET's key with its payload and expiry =
\* now + its resolved TTL; a step of a GET that fails or has caching disabled
\* leaves the cache as it was and is not served from it.
C17_CacheWrittenOnlyByCachedGet ==
  [][/\ cache' # cache
          => \E c \in Calls :
               /\ CachedGetSucceeds(c)
               /\ cache' = [cache EXCEPT ![calls[c].key] =
                              [has |-> TRUE, data |-> calls'[c].data,
                               expiry |-> now + calls[c].cacheTime]]
     /\ \A c \in Calls :
          CachedGetSucceeds(c)
            => cache'[calls[c].key].expiry = now + calls[c].cacheTime
     /\ \A c \in Calls :
          (Moves(c) /\ calls'[c].verb = "get"
             /\ (~calls'[c].useCache \/ calls'[c].outcome = "rejected"))
            => (cache' = cache /\ ~calls'[c].hit)]_vars

\* a cache-enabled GET wrote its entry at time 1 with its per-call TTL, while
\* a GET with caching disabled and a failed GET have completed
C17_Witness ==
  \E c, d, e \in Calls :
    /\ calls[c].pc = "done" /\ calls[c].useCache /\ ~calls[c].hit
    /\ calls[c].outcome = "resolved" /\ calls[c].cacheTime = 3
    /\ cache[calls[c].key] = [has |-> TRUE, data |-> calls[c].data, expiry |-> 4]
    /\ calls[d].pc = "done" /\ ~calls[d].useCache /\ calls[d].outcome = "resolved"
    /\ calls[e].pc = "done" /\ calls[e].outcome = "rejected"

\* the members of a params object, whatever their insertion order
Members(params) == {params[i] : i \in 1..Len(params)}

\* C18: two GET calls map to the same cache key exactly when they have the
\* same path and their params hold the same key/value pairs, in whatever
\* insertion order.
C18_CanonicalCacheKey ==
  \A c, d \in Calls :
    (Invoked(c) /\ Invoked(d) /\ calls[c].verb = "get" /\ calls[d].verb = "get")
      => ((calls[c].url = calls[d].url
             /\ Members(calls[c].params) = Members(calls[d].params))
            <=> calls[c].key = calls[d].key)

\* C11: a step of a post, put, patch or delete call leaves the cache as it
\* was and is not served from it, whatever the options and configuration say
\* about caching, and the step that issues the call dispatches it.
C11_WritesBypassCache ==
  [][\A c \in Calls :
       (Moves(c) /\ calls'[c].verb \in WriteVerbs)
         => /\ cache' = cache
            /\ ~calls'[c].hit /\ ~calls'[c].useCache
            /\ calls'[c].dispatches >= 1]_vars

\* a post given cache: true resolved by its own dispatch while the cache held
\* a live entry for its path and params with another payload
C11_Witness ==
  \E c \in Calls :
    /\ calls[c].verb = "post" /\ calls[c].opts.cache = "true"
    /\ calls[c].pc = "done" /\ calls[c].outcome = "resolved"
    /\ calls[c].dispatches = 1
    /\ cache[calls[c].key].has /\ cache[calls[c].key].expiry > now
    /\ cache[calls[c].key].data # calls[c].data

\* C20: a step of login() or logout(), and a step that changes the token
\* store, leaves the cache as it was; and a cache-enabled GET issued while
\* its key has an unexpired entry is served that entry without a dispatch,
\* whatever the token store holds.
C20_CacheIndependentOfTokens ==
  [][/\ \A c \in Calls :
          (Moves(c) /\ calls'[c].owner \in {"login", "logout"}) => cache' = cache
     /\ storage' # storage => cache' = cache
     /\ \A b \in Calls :
          (IssuesCachedGet(b) /\ cache[calls'[b].key].has
             /\ cache[calls'[b].key].expiry > now)
            => (calls'[b].hit /\ calls'[b].dispatches = 0
                  /\ calls'[b].data = cache[calls'[b].key].data)]_vars

=============================================================================
